---------------------------- MODULE Spec2Model ----------------------------
(***************************************************************************)
(* Model of lib/aggregator.py: the list exploder, the chunk planner, the   *)
(* extraction stage, the job-area aggregation, the usage summary with its  *)
(* unused snapshot, and the duplicate detector, run by rebuild_all.        *)
(*                                                                         *)
(* Strings are sequences of one-character strings.  SQL NULL is NULL (-1)  *)
(* for numbers and timestamps and NullStr for strings.  Timestamps are     *)
(* naturals >= 1; '1970-01-01' is Epoch1970 (0).                           *)
(***************************************************************************)
EXTENDS Integers, Sequences, FiniteSets, Bags, TLC

\* ------------------------------------------------------------------------
\* Bounds of the model
\* ------------------------------------------------------------------------
\* longest raw list value explored for _explode_csv
MaxLen == 4
\* _loop_ranges is explored for start_id, end_id in -MaxAbsId..MaxAbsId
MaxAbsId == 3
\* ... and for step in 1..MaxStep
MaxStep == 3

\* ------------------------------------------------------------------------
\* SQL NULL and the sentinel
\* ------------------------------------------------------------------------
NULL == -1
Epoch1970 == 0
NullStr == <<"NULL">>

Min(x, y) == IF x <= y THEN x ELSE y
Max(x, y) == IF x >= y THEN x ELSE y

\* ------------------------------------------------------------------------
\* _explode_csv
\* ------------------------------------------------------------------------
Digits == {"0", "1", "2", "3", "4", "5", "6", "7", "8", "9"}

DigitVal(c) ==
    CASE c = "0" -> 0 [] c = "1" -> 1 [] c = "2" -> 2 [] c = "3" -> 3
      [] c = "4" -> 4 [] c = "5" -> 5 [] c = "6" -> 6 [] c = "7" -> 7
      [] c = "8" -> 8 [] c = "9" -> 9

\* _csv_strip_re = [\[\]\s"\']
CsvStripChars == {"[", "]", " ", "\t", "\n", "\"", "'"}

\* _csv_strip_re.sub("", s)
csv_strip_sub(s) == SelectSeq(s, LAMBDA c : c \notin CsvStripChars)

\* mutant: the second cleaning pass is left out
csv_keep_sub_Skipped(s) == s

\* _csv_keep_digits_commas.sub("", s), the pattern being [^0-9,]
csv_keep_digits_commas_sub(s) == SelectSeq(s, LAMBDA c : c \in Digits \cup {","})

\* str.split(","): the tokens between commas, empty ones included
RECURSIVE split_comma(_, _)
split_comma(s, cur) ==
    IF s = <<>> THEN <<cur>>
    ELSE IF Head(s) = "," THEN <<cur>> \o split_comma(Tail(s), <<>>)
    ELSE split_comma(Tail(s), Append(cur, Head(s)))

\* mutant: every token passes the filter
isdigit_Always(p) == TRUE

\* str.isdigit(): non-empty and digits only
isdigit(p) == p # <<>> /\ \A i \in 1..Len(p) : p[i] \in Digits

\* int(p) raises ValueError on a token that is no integer literal
ValueError == -1

RECURSIVE DecimalValue(_)
DecimalValue(p) ==
    IF p = <<>> THEN 0
    ELSE 10 * DecimalValue(SubSeq(p, 1, Len(p) - 1)) + DigitVal(p[Len(p)])

int(p) ==
    IF p # <<>> /\ \A i \in 1..Len(p) : p[i] \in Digits
    THEN DecimalValue(p) ELSE ValueError

\* mutant: the seen set is never consulted
RECURSIVE explode_loop_NoDedup(_, _, _)
explode_loop_NoDedup(parts, seen, out) ==
    IF parts = <<>> THEN [raised |-> FALSE, out |-> out]
    ELSE LET i == int(Head(parts)) IN
         IF i = ValueError THEN [raised |-> TRUE, out |-> <<>>]
         ELSE explode_loop_NoDedup(Tail(parts), seen, Append(out, i))

\* the loop of lines 43-48: first occurrences, in order
RECURSIVE explode_loop(_, _, _)
explode_loop(parts, seen, out) ==
    IF parts = <<>> THEN [raised |-> FALSE, out |-> out]
    ELSE LET i == int(Head(parts)) IN
         IF i = ValueError THEN [raised |-> TRUE, out |-> <<>>]
         ELSE IF i \notin seen
              THEN explode_loop(Tail(parts), seen \cup {i}, Append(out, i))
              ELSE explode_loop(Tail(parts), seen, out)

explode_csv(value) ==
    IF value = NullStr \/ value = <<>> THEN [raised |-> FALSE, out |-> <<>>]
    ELSE LET cleaned == csv_keep_digits_commas_sub(csv_strip_sub(value))
             parts == SelectSeq(split_comma(cleaned, <<>>), isdigit)
         IN explode_loop(parts, {}, <<>>)

\* ------------------------------------------------------------------------
\* _loop_ranges
\* ------------------------------------------------------------------------
\* mutant: the window is one id too wide
range_end_OffByOne(a, end_id, step) == Min(a + step, end_id)

\* b = min(a + step - 1, end_id)
range_end(a, end_id, step) == Min(a + step - 1, end_id)

\* the ranges _loop_ranges yields from cursor a on, as a sequence <<a, b>>
RECURSIVE loop_ranges(_, _, _)
loop_ranges(a, end_id, step) ==
    IF a <= end_id
    THEN LET b == range_end(a, end_id, step)
         IN <<(<<a, b>>)>> \o loop_ranges(b + 1, end_id, step)
    ELSE <<>>

\* ------------------------------------------------------------------------
\* SQL semantics used by the statements of the module
\* ------------------------------------------------------------------------
EmptyFn == [x \in {} |-> 0]

COALESCE(x, d) == IF x = NULL THEN d ELSE x

SetMax(S) == CHOOSE x \in S : \A y \in S : y <= x
SetMin(S) == CHOOSE x \in S : \A y \in S : x <= y

\* MAX(col): NULLs are ignored, NULL when nothing is left
SqlMax(S) == IF S \ {NULL} = {} THEN NULL ELSE SetMax(S \ {NULL})

\* GREATEST(...): NULL as soon as one argument is NULL
GREATEST(S) == IF NULL \in S THEN NULL ELSE SetMax(S)

RECURSIVE SeqToBag(_)
SeqToBag(s) == IF s = <<>> THEN EmptyBag ELSE SetToBag({Head(s)}) (+) SeqToBag(Tail(s))

RECURSIVE BagCount(_, _)
\* number of rows of bag B (copies counted) among the row values in S
BagCount(B, S) ==
    IF S = {} THEN 0
    ELSE LET e == CHOOSE x \in S : TRUE IN CopiesIn(e, B) + BagCount(B, S \ {e})

\* SELECT material_id, COUNT(*), MAX(modified) FROM edges GROUP BY material_id
GroupByMaterial(edges) ==
    LET rows == BagToSet(edges)
        mids == {e.material_id : e \in rows}
    IN [m \in mids |->
          [cnt     |-> BagCount(edges, {e \in rows : e.material_id = m}),
           last_dt |-> SqlMax({e.modified : e \in {r \in rows : r.material_id = m}})]]

\* ------------------------------------------------------------------------
\* State
\* ------------------------------------------------------------------------
\* externally owned tables, keyed by primary key
VARIABLES materials, tmp_project_elevations, project_views, pv_col,
          job_area_materials, material_options,
          material_brands, material_brand_styles, material_categories

\* tables owned by the engine
VARIABLES van_exists, van_pv_exists,
          van_tpe_materials_extracted, van_pv_materials_extracted,
          van_jobareas_mat, van_elev_mat, van_pv_mat,
          van_material_usage_summary, van_unused_materials,
          van_duplicate_materials

\* the running rebuild: position, locals of the running function
VARIABLES pc, has_pv, a, ma, counts, last_dt

\* history: summary and duplicate rows at the end of the previous
\* rebuild_all, valid while no input has changed since
VARIABLES prev

\* the pure functions explored on their own
VARIABLES csv_value, csv_result, lr_args, lr_a, lr_out

\* one call of get_material_usage_stats: its argument and what it returned
VARIABLES stats_args, stats_result

\* the environment of a run: the required source table that does not
\* resolve ("none" when all do), and where statements have raised so far
VARIABLES missing, aborts

\* the rebuild of a second browser session, while it is not the one taking
\* a step: its position and the locals of its running function
VARIABLES other

inputs == <<materials, tmp_project_elevations, project_views, pv_col,
            job_area_materials, material_options,
            material_brands, material_brand_styles, material_categories>>
extracted == <<van_tpe_materials_extracted, van_pv_materials_extracted>>
aggregates == <<van_jobareas_mat, van_elev_mat, van_pv_mat>>
outputs == <<van_exists, van_pv_exists, extracted, aggregates,
             van_material_usage_summary, van_unused_materials,
             van_duplicate_materials>>
locals == <<has_pv, a, ma, counts, last_dt>>
pure == <<csv_value, csv_result, lr_args, lr_a, lr_out>>
stats == <<stats_args, stats_result>>
env == <<missing, aborts, other>>
vars == <<inputs, outputs, pc, locals, prev, pure, stats, env>>

\* the chunk window: rebuild_all passes step_rows=5000; the model scales
\* the window down so that a scan takes several chunks
StepRows == 2

\* ------------------------------------------------------------------------
\* _col_exists, _ensure_tables
\* ------------------------------------------------------------------------
\* _col_exists(engine, "project_views", "existing_material_ids")
col_exists_pv == pv_col

\* _col_exists(engine, "van_pv_mat", "material_id")
col_exists_van_pv_mat == van_pv_exists

\* CREATE TABLE IF NOT EXISTS for every van_* table, the two project-view
\* ones only when hp
ensure_tables(hp) ==
    /\ van_exists' = TRUE
    /\ van_pv_exists' = (van_pv_exists \/ hp)

\* ------------------------------------------------------------------------
\* refresh_extracted_tables
\* ------------------------------------------------------------------------
\* WHERE existing_material_ids IS NOT NULL AND existing_material_ids <> ''
Populated(table) ==
    {i \in DOMAIN table : table[i].existing_material_ids # NullStr
                          /\ table[i].existing_material_ids # <<>>}

\* mutant: the window has no lower end
between_NoLower(i, lo, hi) == i <= hi

\* id BETWEEN :a AND :b
between(i, lo, hi) == lo <= i /\ i <= hi

\* the rows list of one elevation chunk (lines 174-187)
RECURSIVE tpe_chunk_rows(_, _)
tpe_chunk_rows(ids, rows) ==
    IF ids = {} THEN rows
    ELSE LET i == SetMin(ids)
             r == tmp_project_elevations[i]
             mids == explode_csv(r.existing_material_ids).out
         IN tpe_chunk_rows(ids \ {i},
               rows (+) SeqToBag([n \in 1..Len(mids) |->
                           [elevation_id |-> i, material_id |-> mids[n],
                            modified |-> r.modified]]))

\* the rows list of one project-view chunk (lines 207-220)
RECURSIVE pv_chunk_rows(_, _)
pv_chunk_rows(ids, rows) ==
    IF ids = {} THEN rows
    ELSE LET i == SetMin(ids)
             r == project_views[i]
             mids == explode_csv(r.existing_material_ids).out
         IN pv_chunk_rows(ids \ {i},
               rows (+) SeqToBag([n \in 1..Len(mids) |->
                           [project_view_id |-> i, material_id |-> mids[n],
                            modified |-> r.modified]]))

\* a statement reading table t can run: the table resolves
Resolves(t) == missing # t

\* mutant: rebuild_usage_summary is called before refresh_extracted_tables
after_SummaryFirst(call) ==
    CASE call = "_ensure_tables" -> "rus_probe"
      [] call = "rebuild_usage_summary" -> "rx_probe"
      [] call = "refresh_extracted_tables" -> "rd_trunc"
      [] call = "rebuild_duplicates" -> "done"

\* lines 441-444: where rebuild_all goes on once a call has returned
after(call) ==
    CASE call = "_ensure_tables" -> "rx_probe"
      [] call = "refresh_extracted_tables" -> "rus_probe"
      [] call = "rebuild_usage_summary" -> "rd_trunc"
      [] call = "rebuild_duplicates" -> "done"

\* rebuild_all, lines 440-441: probe the optional column, create the tables
RebuildAll ==
    /\ pc = "idle"
    /\ has_pv' = col_exists_pv
    /\ ensure_tables(col_exists_pv)
    /\ pc' = after("_ensure_tables")
    /\ UNCHANGED <<inputs, extracted, aggregates, van_material_usage_summary,
                   van_unused_materials, van_duplicate_materials,
                   a, ma, counts, last_dt, prev, pure, stats, env>>

\* refresh_extracted_tables, lines 153-154
RefreshProbe ==
    /\ pc = "rx_probe"
    /\ has_pv' = col_exists_pv
    /\ ensure_tables(col_exists_pv)
    /\ pc' = "rx_trunc_tpe"
    /\ UNCHANGED <<inputs, extracted, aggregates, van_material_usage_summary,
                   van_unused_materials, van_duplicate_materials,
                   a, ma, counts, last_dt, prev, pure, stats, env>>

\* mutant: the elevation edges are not cleared
tpe_truncate_Skipped == van_tpe_materials_extracted

\* line 158: TRUNCATE TABLE van_tpe_materials_extracted
tpe_truncate == EmptyBag

\* mutant: the TRUNCATE names the source table
sources_untouched_TruncateSource ==
    /\ tmp_project_elevations' = EmptyFn
    /\ UNCHANGED <<materials, project_views, pv_col, job_area_materials,
                   material_options, material_brands, material_brand_styles,
                   material_categories>>

\* the statements of lines 157-160 name van_* tables only
sources_untouched == UNCHANGED inputs

\* line 158: TRUNCATE TABLE van_tpe_materials_extracted
RefreshTruncateTpe ==
    /\ pc = "rx_trunc_tpe"
    /\ van_tpe_materials_extracted' = tpe_truncate
    /\ pc' = IF has_pv THEN "rx_trunc_pv" ELSE "rx_tpe_minmax"
    /\ sources_untouched
    /\ UNCHANGED <<van_exists, van_pv_exists, van_pv_materials_extracted,
                   aggregates, van_material_usage_summary, van_unused_materials,
                   van_duplicate_materials, locals, prev, pure, stats, env>>

\* lines 159-160: TRUNCATE TABLE van_pv_materials_extracted
RefreshTruncatePv ==
    /\ pc = "rx_trunc_pv"
    /\ van_pv_materials_extracted' = EmptyBag
    /\ pc' = "rx_tpe_minmax"
    /\ UNCHANGED <<inputs, van_exists, van_pv_exists, van_tpe_materials_extracted,
                   aggregates, van_material_usage_summary, van_unused_materials,
                   van_duplicate_materials, locals, prev, pure, stats, env>>

\* lines 163-172: MIN(id), MAX(id) of the elevation rows with a list
RefreshTpeMinMax ==
    /\ pc = "rx_tpe_minmax"
    /\ Resolves("tmp_project_elevations")
    /\ LET P == Populated(tmp_project_elevations) IN
         IF P # {}
         THEN /\ a' = SetMin(P)
              /\ ma' = SetMax(P)
              /\ pc' = "rx_tpe_chunk"
         ELSE /\ pc' = IF has_pv THEN "rx_pv_minmax"
                    ELSE after("refresh_extracted_tables")
              /\ UNCHANGED <<a, ma>>
    /\ UNCHANGED <<inputs, outputs, has_pv, counts, last_dt, prev, pure, stats, env>>

\* lines 173-193: one chunk [a, b] of the elevation scan, read and inserted
RefreshTpeChunk ==
    /\ pc = "rx_tpe_chunk"
    /\ Resolves("tmp_project_elevations")
    /\ LET b == range_end(a, ma, StepRows)
           ids == {i \in Populated(tmp_project_elevations) : between(i, a, b)}
           rows == tpe_chunk_rows(ids, EmptyBag)
       IN /\ van_tpe_materials_extracted' = van_tpe_materials_extracted (+) rows
          /\ IF b + 1 <= ma
             THEN /\ a' = b + 1
                  /\ UNCHANGED <<pc, ma>>
             ELSE /\ a' = 0
                  /\ ma' = 0
                  /\ pc' = IF has_pv THEN "rx_pv_minmax"
                           ELSE after("refresh_extracted_tables")
    /\ UNCHANGED <<inputs, van_exists, van_pv_exists, van_pv_materials_extracted,
                   aggregates, van_material_usage_summary, van_unused_materials,
                   van_duplicate_materials, has_pv, counts, last_dt, prev, pure, stats, env>>

\* lines 197-205: MIN(id), MAX(id) of the project-view rows with a list
RefreshPvMinMax ==
    /\ pc = "rx_pv_minmax"
    /\ col_exists_pv
    /\ LET P == Populated(project_views) IN
         IF P # {}
         THEN /\ a' = SetMin(P)
              /\ ma' = SetMax(P)
              /\ pc' = "rx_pv_chunk"
         ELSE /\ pc' = after("refresh_extracted_tables")
              /\ UNCHANGED <<a, ma>>
    /\ UNCHANGED <<inputs, outputs, has_pv, counts, last_dt, prev, pure, stats, env>>

\* lines 206-226: one chunk [a, b] of the project-view scan
RefreshPvChunk ==
    /\ pc = "rx_pv_chunk"
    /\ col_exists_pv
    /\ LET b == range_end(a, ma, StepRows)
           ids == {i \in Populated(project_views) : between(i, a, b)}
           rows == pv_chunk_rows(ids, EmptyBag)
       IN /\ van_pv_materials_extracted' = van_pv_materials_extracted (+) rows
          /\ IF b + 1 <= ma
             THEN /\ a' = b + 1
                  /\ UNCHANGED <<pc, ma>>
             ELSE /\ a' = 0
                  /\ ma' = 0
                  /\ pc' = after("refresh_extracted_tables")
    /\ UNCHANGED <<inputs, van_exists, van_pv_exists, van_tpe_materials_extracted,
                   aggregates, van_material_usage_summary, van_unused_materials,
                   van_duplicate_materials, has_pv, counts, last_dt, prev, pure, stats, env>>

\* ------------------------------------------------------------------------
\* _agg_job_areas
\* ------------------------------------------------------------------------
\* rebuild_usage_summary, lines 278-279
SummaryProbe ==
    /\ pc = "rus_probe"
    /\ has_pv' = col_exists_pv
    /\ ensure_tables(col_exists_pv)
    /\ pc' = "aj_minmax"
    /\ UNCHANGED <<inputs, extracted, aggregates, van_material_usage_summary,
                   van_unused_materials, van_duplicate_materials,
                   a, ma, counts, last_dt, prev, pure, stats, env>>

\* lines 235-245: the accumulators, MIN(id), MAX(id) of job_area_materials
AggMinMax ==
    /\ pc = "aj_minmax"
    /\ Resolves("job_area_materials")
    /\ counts' = EmptyFn
    /\ last_dt' = EmptyFn
    /\ IF DOMAIN job_area_materials # {}
       THEN /\ a' = SetMin(DOMAIN job_area_materials)
            /\ ma' = SetMax(DOMAIN job_area_materials)
            /\ pc' = "aj_chunk"
       ELSE /\ pc' = "aj_trunc_empty"
            /\ UNCHANGED <<a, ma>>
    /\ UNCHANGED <<inputs, outputs, has_pv, prev, pure, stats, env>>

\* lines 241-243: empty association table, the aggregate is only truncated
AggTruncateEmpty ==
    /\ pc = "aj_trunc_empty"
    /\ van_jobareas_mat' = EmptyFn
    /\ pc' = "rus_elev_trunc"
    /\ UNCHANGED <<inputs, van_exists, van_pv_exists, extracted, van_elev_mat,
                   van_pv_mat, van_material_usage_summary, van_unused_materials,
                   van_duplicate_materials, locals, prev, pure, stats, env>>

\* mutant: the filter mo.material_id IS NOT NULL is left out
agg_chunk_ids_KeepNull(lo, hi) ==
    {i \in DOMAIN job_area_materials :
        /\ lo <= i /\ i <= hi
        /\ job_area_materials[i].material_option_id \in DOMAIN material_options}

\* jam JOIN mo ON mo.id = jam.material_option_id
\*   WHERE jam.id BETWEEN a AND b AND mo.material_id IS NOT NULL
agg_chunk_ids(lo, hi) ==
    {i \in DOMAIN job_area_materials :
        /\ lo <= i /\ i <= hi
        /\ job_area_materials[i].material_option_id \in DOMAIN material_options
        /\ material_options[job_area_materials[i].material_option_id] # NULL}

\* lines 255-262 over the rows of one chunk: <<counts, last_dt>> afterwards
RECURSIVE agg_rows(_, _, _)
agg_rows(ids, cnts, last) ==
    IF ids = {} THEN <<cnts, last>>
    ELSE LET i == SetMin(ids)
             mid == material_options[job_area_materials[i].material_option_id]
             dt == job_area_materials[i].updated
             cnts2 == IF mid \in DOMAIN cnts
                      THEN [cnts EXCEPT ![mid] = @ + 1]
                      ELSE cnts @@ (mid :> 1)
             last2 == IF dt = NULL THEN last
                      ELSE IF mid \notin DOMAIN last THEN last @@ (mid :> dt)
                      ELSE IF dt > last[mid] THEN [last EXCEPT ![mid] = dt]
                      ELSE last
         IN agg_rows(ids \ {i}, cnts2, last2)

\* lines 246-262: one chunk [a, b] of the association scan
AggChunk ==
    /\ pc = "aj_chunk"
    /\ Resolves("job_area_materials")
    /\ Resolves("material_options")
    /\ LET b == range_end(a, ma, StepRows)
           acc == agg_rows(agg_chunk_ids(a, b), counts, last_dt)
       IN /\ counts' = acc[1]
          /\ last_dt' = acc[2]
          /\ IF b + 1 <= ma
             THEN /\ a' = b + 1
                  /\ UNCHANGED <<pc, ma>>
             ELSE /\ a' = 0
                  /\ ma' = 0
                  /\ pc' = "aj_trunc"
    /\ UNCHANGED <<inputs, outputs, has_pv, prev, pure, stats, env>>

\* line 268: TRUNCATE TABLE van_jobareas_mat
AggTruncate ==
    /\ pc = "aj_trunc"
    /\ van_jobareas_mat' = EmptyFn
    /\ pc' = IF DOMAIN counts # {} THEN "aj_insert" ELSE "rus_elev_trunc"
    /\ UNCHANGED <<inputs, van_exists, van_pv_exists, extracted, van_elev_mat,
                   van_pv_mat, van_material_usage_summary, van_unused_materials,
                   van_duplicate_materials, locals, prev, pure, stats, env>>

\* lines 264-266, 269-273: the accumulated rows, inserted when there are any
AggInsert ==
    /\ pc = "aj_insert"
    /\ van_jobareas_mat' =
         [m \in DOMAIN counts |->
            [cnt |-> counts[m],
             last_dt |-> IF m \in DOMAIN last_dt THEN last_dt[m] ELSE NULL]]
         @@ van_jobareas_mat
    /\ counts' = EmptyFn
    /\ last_dt' = EmptyFn
    /\ pc' = "rus_elev_trunc"
    /\ UNCHANGED <<inputs, van_exists, van_pv_exists, extracted, van_elev_mat,
                   van_pv_mat, van_material_usage_summary, van_unused_materials,
                   van_duplicate_materials, has_pv, a, ma, prev, pure, stats, env>>

\* ------------------------------------------------------------------------
\* rebuild_usage_summary
\* ------------------------------------------------------------------------
\* line 286: TRUNCATE TABLE van_elev_mat
ElevTruncate ==
    /\ pc = "rus_elev_trunc"
    /\ van_elev_mat' = EmptyFn
    /\ pc' = "rus_elev_insert"
    /\ UNCHANGED <<inputs, van_exists, van_pv_exists, extracted, van_jobareas_mat,
                   van_pv_mat, van_material_usage_summary, van_unused_materials,
                   van_duplicate_materials, locals, prev, pure, stats, env>>

\* lines 287-292: INSERT INTO van_elev_mat SELECT ... GROUP BY material_id
ElevInsert ==
    /\ pc = "rus_elev_insert"
    /\ van_elev_mat' = GroupByMaterial(van_tpe_materials_extracted) @@ van_elev_mat
    /\ pc' = IF has_pv THEN "rus_pv_trunc" ELSE "rus_sum_trunc"
    /\ UNCHANGED <<inputs, van_exists, van_pv_exists, extracted, van_jobareas_mat,
                   van_pv_mat, van_material_usage_summary, van_unused_materials,
                   van_duplicate_materials, locals, prev, pure, stats, env>>

\* line 294: TRUNCATE TABLE van_pv_mat
PvTruncate ==
    /\ pc = "rus_pv_trunc"
    /\ van_pv_mat' = EmptyFn
    /\ pc' = "rus_pv_insert"
    /\ UNCHANGED <<inputs, van_exists, van_pv_exists, extracted, van_jobareas_mat,
                   van_elev_mat, van_material_usage_summary, van_unused_materials,
                   van_duplicate_materials, locals, prev, pure, stats, env>>

\* lines 295-300: INSERT INTO van_pv_mat SELECT ... GROUP BY material_id
PvInsert ==
    /\ pc = "rus_pv_insert"
    /\ van_pv_mat' = GroupByMaterial(van_pv_materials_extracted) @@ van_pv_mat
    /\ pc' = "rus_sum_trunc"
    /\ UNCHANGED <<inputs, van_exists, van_pv_exists, extracted, van_jobareas_mat,
                   van_elev_mat, van_material_usage_summary, van_unused_materials,
                   van_duplicate_materials, locals, prev, pure, stats, env>>

\* the row of an aggregate LEFT JOINed to material m: NULLs when there is none
LeftJoin(agg, m) == IF m \in DOMAIN agg THEN agg[m] ELSE [cnt |-> NULL, last_dt |-> NULL]

\* mutant: the project-view count is left out of the total
summary_row_NoPv(m) ==
    LET j == LeftJoin(van_jobareas_mat, m)
        e == LeftJoin(van_elev_mat, m)
        p == LeftJoin(IF col_exists_van_pv_mat THEN van_pv_mat ELSE EmptyFn, m)
    IN [used_job_areas     |-> COALESCE(j.cnt, 0),
        used_elevations    |-> COALESCE(e.cnt, 0),
        used_project_views |-> COALESCE(p.cnt, 0),
        total_uses         |-> COALESCE(j.cnt, 0) + COALESCE(e.cnt, 0),
        last_used          |-> GREATEST({COALESCE(j.last_dt, Epoch1970),
                                         COALESCE(e.last_dt, Epoch1970),
                                         COALESCE(p.last_dt, Epoch1970),
                                         materials[m].modified})]

\* lines 308-323: the SELECT list for catalog material m; p is van_pv_mat
\* when that table exists and the empty derived table otherwise
summary_row(m) ==
    LET j == LeftJoin(van_jobareas_mat, m)
        e == LeftJoin(van_elev_mat, m)
        p == LeftJoin(IF col_exists_van_pv_mat THEN van_pv_mat ELSE EmptyFn, m)
    IN [used_job_areas     |-> COALESCE(j.cnt, 0),
        used_elevations    |-> COALESCE(e.cnt, 0),
        used_project_views |-> COALESCE(p.cnt, 0),
        total_uses         |-> COALESCE(j.cnt, 0) + COALESCE(e.cnt, 0)
                                 + COALESCE(p.cnt, 0),
        last_used          |-> GREATEST({COALESCE(j.last_dt, Epoch1970),
                                         COALESCE(e.last_dt, Epoch1970),
                                         COALESCE(p.last_dt, Epoch1970),
                                         materials[m].modified})]

\* line 304: TRUNCATE TABLE van_material_usage_summary
SummaryTruncate ==
    /\ pc = "rus_sum_trunc"
    /\ van_material_usage_summary' = EmptyFn
    /\ pc' = "rus_sum_insert"
    /\ UNCHANGED <<inputs, van_exists, van_pv_exists, extracted, aggregates,
                   van_unused_materials, van_duplicate_materials, locals, prev, pure, stats, env>>

\* mutant: an inner join, only materials with an elevation aggregate
summary_from_InnerJoin == DOMAIN materials \cap DOMAIN van_elev_mat

\* line 320: FROM materials m, every LEFT JOIN keeping each catalog row once
summary_from == DOMAIN materials

\* lines 305-324: INSERT INTO van_material_usage_summary SELECT ...
SummaryInsert ==
    /\ pc = "rus_sum_insert"
    /\ Resolves("materials")
    /\ van_material_usage_summary' =
         [m \in summary_from |-> summary_row(m)] @@ van_material_usage_summary
    /\ pc' = "rus_unused_trunc"
    /\ UNCHANGED <<inputs, van_exists, van_pv_exists, extracted, aggregates,
                   van_unused_materials, van_duplicate_materials, locals, prev, pure, stats, env>>

\* line 328: TRUNCATE TABLE van_unused_materials
UnusedTruncate ==
    /\ pc = "rus_unused_trunc"
    /\ van_unused_materials' = EmptyFn
    /\ pc' = "rus_unused_insert"
    /\ UNCHANGED <<inputs, van_exists, van_pv_exists, extracted, aggregates,
                   van_material_usage_summary, van_duplicate_materials,
                   locals, prev, pure, stats, env>>

\* mutant: the snapshot filters on the elevation count alone
unused_where_ElevOnly(m) == van_material_usage_summary[m].used_elevations = 0

\* line 333: WHERE mus.total_uses = 0
unused_where(m) == van_material_usage_summary[m].total_uses = 0

\* lines 329-334: INSERT INTO van_unused_materials SELECT ... (snapshot_at is
\* NOW() and reason_all_unused the constant 1; neither is kept in the model)
UnusedInsert ==
    /\ pc = "rus_unused_insert"
    /\ van_unused_materials' =
         [m \in {x \in DOMAIN van_material_usage_summary : unused_where(x)} |->
            [last_used |-> van_material_usage_summary[m].last_used]]
         @@ van_unused_materials
    /\ pc' = after("rebuild_usage_summary")
    /\ UNCHANGED <<inputs, van_exists, van_pv_exists, extracted, aggregates,
                   van_material_usage_summary, van_duplicate_materials,
                   locals, prev, pure, stats, env>>

\* ------------------------------------------------------------------------
\* rebuild_duplicates
\* ------------------------------------------------------------------------
\* LOWER(s) on the letters the model uses
LowerChar(c) == CASE c = "A" -> "a" [] c = "B" -> "b" [] OTHER -> c
LOWER(s) == IF s = NullStr THEN NullStr ELSE [i \in 1..Len(s) |-> LowerChar(s[i])]

\* TRIM(s): leading and trailing spaces removed
RECURSIVE LTrim(_)
LTrim(s) == IF s # <<>> /\ Head(s) = " " THEN LTrim(Tail(s)) ELSE s
RECURSIVE RTrim(_)
RTrim(s) == IF s # <<>> /\ s[Len(s)] = " " THEN RTrim(SubSeq(s, 1, Len(s) - 1)) ELSE s
TRIM(s) == IF s = NullStr THEN NullStr ELSE RTrim(LTrim(s))

COALESCE_STR(s, d) == IF s = NullStr THEN d ELSE s

\* CONCAT_WS(sep, args): the non-NULL arguments joined by sep
RECURSIVE JoinWs(_, _)
JoinWs(sep, args) ==
    IF args = <<>> THEN <<>>
    ELSE IF Len(args) = 1 THEN Head(args)
    ELSE Head(args) \o <<sep>> \o JoinWs(sep, Tail(args))
CONCAT_WS(sep, args) == JoinWs(sep, SelectSeq(args, LAMBDA x : x # NullStr))

\* MD5(s): NULL for NULL; taken as collision-free on the keys of the model
MD5(s) == IF s = NullStr THEN NullStr ELSE <<"md5">> \o s

\* LEFT JOIN lookup ON lookup.id = fk: the title, NULL without a match
LookupTitle(lookup, fk) == IF fk \in DOMAIN lookup THEN lookup[fk] ELSE NullStr

KeyTypes == <<"title", "title_brand", "title_brand_style",
              "title_brand_style_category">>

\* the component expressions shared by the four key expressions
TitleExpr(m) == LOWER(TRIM(materials[m].title))
BrandExpr(m) ==
    LOWER(TRIM(COALESCE_STR(LookupTitle(material_brands, materials[m].material_brand_id), <<>>)))
StyleExpr(m) ==
    LOWER(TRIM(COALESCE_STR(LookupTitle(material_brand_styles, materials[m].material_brand_style_id), <<>>)))
CategoryExpr(m) ==
    LOWER(TRIM(COALESCE_STR(LookupTitle(material_categories, materials[m].material_category_id), <<>>)))

\* mutant: the title key is trimmed but not lower-cased
key_expr_NoLower(key_type, m) ==
    CASE key_type = "title" -> TRIM(materials[m].title)
      [] key_type = "title_brand" ->
           CONCAT_WS("|", <<TitleExpr(m), BrandExpr(m)>>)
      [] key_type = "title_brand_style" ->
           CONCAT_WS("|", <<TitleExpr(m), BrandExpr(m), StyleExpr(m)>>)
      [] key_type = "title_brand_style_category" ->
           CONCAT_WS("|", <<TitleExpr(m), BrandExpr(m), StyleExpr(m), CategoryExpr(m)>>)

\* lines 381-393: expr_sql of each key type, for catalog material m
key_expr(key_type, m) ==
    CASE key_type = "title" -> TitleExpr(m)
      [] key_type = "title_brand" ->
           CONCAT_WS("|", <<TitleExpr(m), BrandExpr(m)>>)
      [] key_type = "title_brand_style" ->
           CONCAT_WS("|", <<TitleExpr(m), BrandExpr(m), StyleExpr(m)>>)
      [] key_type = "title_brand_style_category" ->
           CONCAT_WS("|", <<TitleExpr(m), BrandExpr(m), StyleExpr(m), CategoryExpr(m)>>)

\* line 366: HAVING COUNT(*) > 1
dup_having(n) == n > 1

\* lines 359-372: the rows _dup_insert selects. The inner query groups the
\* catalog by MD5(expr) (NULL is one group); the join m2.gh = gh.gh keeps
\* no row whose hash is NULL.
dup_rows(key_type) ==
    LET gh(m) == MD5(key_expr(key_type, m))
        hashes == {gh(m) : m \in DOMAIN materials}
        gs(h) == Cardinality({m \in DOMAIN materials : gh(m) = h})
        groups == {h \in hashes : dup_having(gs(h))}
    IN {[key_type |-> key_type, group_hash |-> gh(m), group_size |-> gs(gh(m)),
         material_id |-> m] :
          m \in {x \in DOMAIN materials : gh(x) \in groups \ {NullStr}}}

\* mutant: the table is not cleared
dup_truncate_Skipped == van_duplicate_materials

\* line 378: TRUNCATE TABLE van_duplicate_materials
dup_truncate == EmptyBag

\* rebuild_duplicates, lines 377-378
DupTruncate ==
    /\ pc = "rd_trunc"
    /\ van_duplicate_materials' = dup_truncate
    /\ pc' = "rd_title"
    /\ UNCHANGED <<inputs, van_exists, van_pv_exists, extracted, aggregates,
                   van_material_usage_summary, van_unused_materials,
                   locals, prev, pure, stats, env>>

\* _dup_insert(engine, key_type, expr_sql): one INSERT ... SELECT
dup_insert(at, key_type, next) ==
    /\ pc = at
    /\ Resolves("materials")
    /\ van_duplicate_materials' = van_duplicate_materials (+) SetToBag(dup_rows(key_type))
    /\ pc' = next
    /\ UNCHANGED <<inputs, van_exists, van_pv_exists, extracted, aggregates,
                   van_material_usage_summary, van_unused_materials,
                   locals, prev, pure, stats, env>>

\* line 381
DupTitle == dup_insert("rd_title", "title", "rd_title_brand")
\* lines 384-385
DupTitleBrand == dup_insert("rd_title_brand", "title_brand", "rd_title_brand_style")
\* lines 388-389
DupTitleBrandStyle ==
    dup_insert("rd_title_brand_style", "title_brand_style", "rd_title_brand_style_category")
\* lines 392-393
DupTitleBrandStyleCategory ==
    dup_insert("rd_title_brand_style_category", "title_brand_style_category",
               after("rebuild_duplicates"))

\* ------------------------------------------------------------------------
\* rebuild_all returning, and the world between two rebuilds
\* ------------------------------------------------------------------------
NoPrev == [valid |-> FALSE, summary |-> EmptyFn, dups |-> EmptyBag]

\* rebuild_all returns to the page (line 444); the tables it leaves are
\* remembered for the next run
Return ==
    /\ pc = "done"
    /\ pc' = "idle"
    /\ prev' = [valid |-> TRUE, summary |-> van_material_usage_summary,
                dups |-> van_duplicate_materials]
    /\ UNCHANGED <<inputs, outputs, locals, pure, stats, env>>

\* the external owner adds or drops project_views.existing_material_ids
\* between two rebuilds
SchemaChange ==
    /\ pc = "idle"
    /\ pv_col' = ~pv_col
    /\ prev' = NoPrev
    /\ UNCHANGED <<materials, tmp_project_elevations, project_views,
                   job_area_materials, material_options,
                   material_brands, material_brand_styles, material_categories,
                   outputs, pc, locals, pure, stats, env>>

\* ------------------------------------------------------------------------
\* Two sessions of the admin page
\* ------------------------------------------------------------------------
\* a session that has not pressed the button
NoOther ==
    [pc |-> "idle", has_pv |-> FALSE, a |-> 0, ma |-> 0,
     counts |-> EmptyFn, last_dt |-> EmptyFn]

\* the page calls rebuild_all in the script thread of the session whose
\* button was pressed, without a lock: between two statements of one session
\* the other session takes its steps, each with its own frame, both on the
\* same tables
Switch ==
    /\ other' = [pc |-> pc, has_pv |-> has_pv, a |-> a, ma |-> ma,
                 counts |-> counts, last_dt |-> last_dt]
    /\ pc' = other.pc
    /\ has_pv' = other.has_pv
    /\ a' = other.a
    /\ ma' = other.ma
    /\ counts' = other.counts
    /\ last_dt' = other.last_dt
    /\ UNCHANGED <<inputs, outputs, prev, pure, stats, missing, aborts>>

\* ------------------------------------------------------------------------
\* Statements that raise, and the schema changing under a running rebuild
\* ------------------------------------------------------------------------
\* failures remembered in aborts
MaxAborts == 1

\* positions of a run at which one chunk is read and inserted
ChunkSteps == {"rx_tpe_chunk", "rx_pv_chunk", "aj_chunk"}

\* every other position at which a statement is about to be executed
Statements ==
    {"rx_probe", "rx_trunc_tpe", "rx_trunc_pv", "rx_tpe_minmax", "rx_pv_minmax",
     "rus_probe", "aj_minmax", "aj_trunc_empty", "aj_trunc", "aj_insert",
     "rus_elev_trunc", "rus_elev_insert", "rus_pv_trunc", "rus_pv_insert",
     "rus_sum_trunc", "rus_sum_insert", "rus_unused_trunc", "rus_unused_insert",
     "rd_trunc", "rd_title", "rd_title_brand", "rd_title_brand_style",
     "rd_title_brand_style_category"}

\* mutant: the exception is swallowed and the loop goes on
on_error_Swallowed(at) == at

\* no statement of the module sits in a try block: an exception leaves every
\* frame up to the caller of rebuild_all
on_error(at) == "raised"

\* the statement at position at raises: nothing is written (a failed INSERT
\* is rolled back by engine.begin()), the locals are gone with the frame
Raise(at) ==
    /\ pc = at
    /\ pc' = on_error(at)
    /\ aborts' = IF Len(aborts) < MaxAborts
                  THEN Append(aborts, [at |-> at, a |-> a]) ELSE aborts
    /\ a' = 0
    /\ ma' = 0
    /\ counts' = EmptyFn
    /\ last_dt' = EmptyFn
    /\ UNCHANGED <<inputs, outputs, has_pv, prev, pure, stats, missing, other>>

\* lines 175-193: the read or the insert of an elevation chunk fails
RefreshTpeChunkFails == Len(aborts) < MaxAborts /\ Raise("rx_tpe_chunk")

\* lines 208-226: the read or the insert of a project-view chunk fails
RefreshPvChunkFails == Len(aborts) < MaxAborts /\ Raise("rx_pv_chunk")

\* lines 247-254: the read of an association chunk fails
AggChunkFails == Len(aborts) < MaxAborts /\ Raise("aj_chunk")

\* any other statement fails
StatementFails == Len(aborts) < MaxAborts /\ \E at \in Statements : Raise(at)

\* lines 198-215 with the column gone: the SELECT names a column that does
\* not exist
PvColumnGone ==
    /\ pc \in {"rx_pv_minmax", "rx_pv_chunk"}
    /\ ~col_exists_pv
    /\ Raise(pc)

\* the required tables the statement at a position reads
Reads(at) ==
    CASE at \in {"rx_tpe_minmax", "rx_tpe_chunk"} -> {"tmp_project_elevations"}
      [] at = "aj_minmax" -> {"job_area_materials"}
      [] at = "aj_chunk" -> {"job_area_materials", "material_options"}
      [] at \in {"rus_sum_insert", "rd_title", "rd_title_brand", "rd_title_brand_style",
                 "rd_title_brand_style_category"} -> {"materials"}
      [] OTHER -> {}

\* a statement reads a required table that does not resolve
ConfigError ==
    /\ missing \in Reads(pc)
    /\ Raise(pc)

\* the exception reaches the page that called rebuild_all
Surface ==
    /\ pc = "raised"
    /\ pc' = "idle"
    /\ UNCHANGED <<inputs, outputs, locals, prev, pure, stats, env>>

\* the external owner adds or drops project_views.existing_material_ids
\* while a rebuild is running
SchemaChangeDuringRun ==
    /\ pc \in Statements \cup ChunkSteps
    /\ pv_col' = ~pv_col
    /\ prev' = NoPrev
    /\ UNCHANGED <<materials, tmp_project_elevations, project_views,
                   job_area_materials, material_options,
                   material_brands, material_brand_styles, material_categories,
                   outputs, pc, locals, pure, stats, env>>

\* ------------------------------------------------------------------------
\* get_material_usage_stats
\* ------------------------------------------------------------------------
\* line 408, "if material_ids:": None and the empty list are both false
truthy(args) == args.given /\ args.ids # {}

\* lines 413-435: the SELECT, with its WHERE ... IN (...) when material_ids
\* is true, and the dictionary built from its rows
get_material_usage_stats(args) ==
    LET selected == {m \in DOMAIN van_material_usage_summary :
                        truthy(args) => m \in args.ids}
    IN [m \in selected |->
          [job_areas     |-> van_material_usage_summary[m].used_job_areas,
           elevations    |-> van_material_usage_summary[m].used_elevations,
           project_views |-> van_material_usage_summary[m].used_project_views,
           total         |-> van_material_usage_summary[m].total_uses,
           last_used     |-> van_material_usage_summary[m].last_used]]

\* one call get_material_usage_stats(engine, material_ids)
GetMaterialUsageStats(args) ==
    /\ ~stats_result.done
    /\ van_exists
    /\ stats_args' = args
    /\ stats_result' = [done |-> TRUE, rows |-> get_material_usage_stats(args)]
    /\ UNCHANGED <<inputs, outputs, pc, locals, prev, pure, env>>

\* ------------------------------------------------------------------------
\* The pure functions on their own
\* ------------------------------------------------------------------------
NoResult == [done |-> FALSE, raised |-> FALSE, out |-> <<>>]

\* one call _explode_csv(csv_value)
Explode ==
    /\ ~csv_result.done
    /\ csv_result' = [done |-> TRUE, raised |-> explode_csv(csv_value).raised,
                      out |-> explode_csv(csv_value).out]
    /\ UNCHANGED <<inputs, outputs, pc, locals, prev, csv_value, lr_args, lr_a, lr_out,
                   stats, env>>

\* one turn of the generator _loop_ranges (lines 54-57): yield a, b
LoopRangesYield ==
    /\ lr_a <= lr_args.end_id
    /\ LET b == range_end(lr_a, lr_args.end_id, lr_args.step)
       IN /\ lr_out' = Append(lr_out, <<lr_a, b>>)
          /\ lr_a' = b + 1
    /\ UNCHANGED <<inputs, outputs, pc, locals, prev, csv_value, csv_result, lr_args,
                   stats, env>>

\* ------------------------------------------------------------------------
\* Initial states
\* ------------------------------------------------------------------------
\* source ids of the full pipeline are 1..MaxSrc
MaxSrc == 3
\* source ids of the extraction stage on its own are 1..MaxId
MaxId == 3
\* catalog ids of the duplicate detector on its own are 1..MaxDupMat
MaxDupMat == 3

\* every table with primary keys in ids and rows in Rows
Tables(ids, Rows) == UNION {[D -> Rows] : D \in SUBSET ids}

Row(mod, ids) == [modified |-> mod, existing_material_ids |-> ids]
Mat(mod, title, b, st, c) ==
    [modified |-> mod, title |-> title, material_brand_id |-> b,
     material_brand_style_id |-> st, material_category_id |-> c]
Jam(opt, upd) == [material_option_id |-> opt, updated |-> upd]

\* the engine has never run: no van_* table exists
FreshOutputs ==
    /\ van_exists = FALSE
    /\ van_pv_exists = FALSE
    /\ van_tpe_materials_extracted = EmptyBag
    /\ van_pv_materials_extracted = EmptyBag
    /\ van_jobareas_mat = EmptyFn
    /\ van_elev_mat = EmptyFn
    /\ van_pv_mat = EmptyFn
    /\ van_material_usage_summary = EmptyFn
    /\ van_unused_materials = EmptyFn
    /\ van_duplicate_materials = EmptyBag

IdleLocals ==
    /\ has_pv = FALSE
    /\ a = 0
    /\ ma = 0
    /\ counts = EmptyFn
    /\ last_dt = EmptyFn
    /\ prev = NoPrev

PureUnused ==
    /\ csv_value = <<>>
    /\ csv_result = NoResult
    /\ lr_args = [start_id |-> 1, end_id |-> 0, step |-> 1]
    /\ lr_a = 1
    /\ lr_out = <<>>

\* material_ids=None, the function not called yet
NoStatsArgs == [given |-> FALSE, ids |-> {}]
NoStats == [done |-> FALSE, rows |-> EmptyFn]

StatsUnused ==
    /\ stats_args = NoStatsArgs
    /\ stats_result = NoStats

\* every required table resolves and no statement has raised
NoFault ==
    /\ missing = "none"
    /\ aborts = <<>>
    /\ other = NoOther

\* lookup tables: two brands whose titles normalise to the same key
SampleBrands == (1 :> <<"B">>) @@ (2 :> <<" ", "b">>)
SampleStyles == (1 :> <<"s">>)
SampleCategories == (1 :> <<"c">>)

\* catalogs of the usage pipeline: ids 1 and 2, each absent or present with
\* a NULL or a set modified time; their titles collide under the title key
Catalogs ==
    Tables({1, 2}, {Mat(t, <<"a">>, NULL, NULL, NULL) : t \in {NULL, 2, 6}})

SampleCatalog == (1 :> Mat(2, <<"a">>, NULL, NULL, NULL))
                 @@ (2 :> Mat(NULL, <<" ", "A">>, 1, NULL, NULL))

\* rows of the list-bearing tables in the usage pipeline
TpeRows == {Row(1, <<"1", ",", "2">>), Row(3, <<"[", "2", ",", "2", ",", "5", "]">>)}
PvRows == {Row(4, <<"2", ",", " ", "1">>)}
JamRows == {Jam(1, NULL), Jam(2, 3)}
SampleTpe == (2 :> Row(1, <<"2", ",", "1">>))
SamplePv == (1 :> Row(NULL, <<"1", ",", "7">>))
\* association rows: one resolving to NULL, one without a mapping row, one
\* resolving to material 1
SampleJam == (1 :> Jam(3, 5)) @@ (2 :> Jam(9, 1)) @@ (3 :> Jam(1, 5))
\* material_options: option 1 and 2 resolve to materials, option 3 to NULL
SampleOptions == (1 :> 1) @@ (2 :> 2) @@ (3 :> NULL)

InitPipeline ==
    /\ materials \in Catalogs
    /\ \/ /\ tmp_project_elevations \in Tables(1..MaxSrc, TpeRows)
          /\ project_views = SamplePv
          /\ job_area_materials = SampleJam
       \/ /\ tmp_project_elevations = SampleTpe
          /\ project_views \in Tables(1..MaxSrc, PvRows)
          /\ job_area_materials = SampleJam
       \/ /\ tmp_project_elevations = SampleTpe
          /\ project_views = SamplePv
          /\ job_area_materials \in Tables(1..MaxSrc, JamRows)
    /\ pv_col = FALSE
    /\ material_options = SampleOptions
    /\ material_brands = SampleBrands
    /\ material_brand_styles = SampleStyles
    /\ material_categories = SampleCategories

Init ==
    /\ InitPipeline
    /\ FreshOutputs
    /\ pc = "idle"
    /\ IdleLocals
    /\ PureUnused
    /\ StatsUnused
    /\ NoFault

Next ==
    \/ RebuildAll \/ RefreshProbe \/ RefreshTruncateTpe \/ RefreshTruncatePv
    \/ RefreshTpeMinMax \/ RefreshTpeChunk \/ RefreshPvMinMax \/ RefreshPvChunk
    \/ SummaryProbe \/ AggMinMax \/ AggTruncateEmpty \/ AggChunk
    \/ AggTruncate \/ AggInsert
    \/ ElevTruncate \/ ElevInsert \/ PvTruncate \/ PvInsert
    \/ SummaryTruncate \/ SummaryInsert \/ UnusedTruncate \/ UnusedInsert
    \/ DupTruncate \/ DupTitle \/ DupTitleBrand \/ DupTitleBrandStyle
    \/ DupTitleBrandStyleCategory
    \/ Return \/ SchemaChange

\* rebuild_all run again and again, the optional column coming and going
\* between two runs
Spec == Init /\ [][Next]_vars

\* ------------------------------------------------------------------------
\* The stages and the pure functions, each on its own
\* ------------------------------------------------------------------------
IdlePipeline ==
    /\ materials = SampleCatalog
    /\ tmp_project_elevations = SampleTpe
    /\ project_views = SamplePv
    /\ pv_col = TRUE
    /\ job_area_materials = SampleJam
    /\ material_options = SampleOptions
    /\ material_brands = SampleBrands
    /\ material_brand_styles = SampleStyles
    /\ material_categories = SampleCategories
    /\ FreshOutputs
    /\ pc = "idle"
    /\ IdleLocals
    /\ StatsUnused
    /\ NoFault

\* characters of the raw list values explored: digits, the comma, a
\* character of the strip class, a bracket, a letter, a minus sign
CsvAlphabet == {"0", "1", "2", ",", " ", "[", "a", "-"}
Strings(alphabet, n) == UNION {[1..k -> alphabet] : k \in 0..n}

InitCsv ==
    /\ IdlePipeline
    /\ csv_value \in {NullStr} \cup Strings(CsvAlphabet, MaxLen)
    /\ csv_result = NoResult
    /\ lr_args = [start_id |-> 1, end_id |-> 0, step |-> 1]
    /\ lr_a = 1
    /\ lr_out = <<>>

\* _explode_csv called on any raw value
SpecCsv == InitCsv /\ [][Explode]_vars

InitRanges ==
    /\ IdlePipeline
    /\ csv_value = <<>>
    /\ csv_result = NoResult
    /\ lr_args \in [start_id : -MaxAbsId..MaxAbsId, end_id : -MaxAbsId..MaxAbsId,
                    step : 1..MaxStep]
    /\ lr_a = lr_args.start_id
    /\ lr_out = <<>>

\* _loop_ranges consumed to its end for any bounds and step
SpecRanges == InitRanges /\ [][LoopRangesYield]_vars

\* rows of tmp_project_elevations for the extraction stage: no list, an
\* empty list, a list repeating an id, a bracketed list, a list of garbage
XTpeRows ==
    {Row(NULL, NullStr), Row(NULL, <<>>), Row(1, <<"x">>),
     Row(NULL, <<"[", "1", ",", "2", "]">>)}
    \cup {Row(t, l) : t \in {1, 2},
                      l \in {<<"2", ",", "2">>, <<"[", "1", ",", "2", "]">>}}

\* edges left by an earlier rebuild over other source rows
StaleEdges == SetToBag({[elevation_id |-> 1, material_id |-> 9, modified |-> NULL]})

InitExtract ==
    /\ materials = SampleCatalog
    /\ tmp_project_elevations \in Tables(1..MaxId, XTpeRows)
    /\ project_views \in {EmptyFn, SamplePv}
    /\ pv_col \in BOOLEAN
    /\ job_area_materials = SampleJam
    /\ material_options = SampleOptions
    /\ material_brands = SampleBrands
    /\ material_brand_styles = SampleStyles
    /\ material_categories = SampleCategories
    /\ van_exists \in BOOLEAN
    /\ van_pv_exists = FALSE
    /\ van_tpe_materials_extracted = IF van_exists THEN StaleEdges ELSE EmptyBag
    /\ van_pv_materials_extracted = EmptyBag
    /\ van_jobareas_mat = EmptyFn
    /\ van_elev_mat = EmptyFn
    /\ van_pv_mat = EmptyFn
    /\ van_material_usage_summary = EmptyFn
    /\ van_unused_materials = EmptyFn
    /\ van_duplicate_materials = EmptyBag
    /\ pc = "rx_probe"
    /\ IdleLocals
    /\ PureUnused
    /\ StatsUnused
    /\ NoFault

NextExtract ==
    \/ RefreshProbe \/ RefreshTruncateTpe \/ RefreshTruncatePv
    \/ RefreshTpeMinMax \/ RefreshTpeChunk \/ RefreshPvMinMax \/ RefreshPvChunk

\* refresh_extracted_tables called once, on a fresh database or over the
\* edges of an earlier rebuild
SpecExtract == InitExtract /\ [][NextExtract]_vars

\* catalog rows for the duplicate detector: a missing title, titles equal
\* up to case and spaces, a title holding the delimiter; no brand, or one
\* of two brands whose titles normalise alike, with a style and a category
DupTitles == {NullStr, <<"a">>, <<" ", "A", " ">>, <<"a", "|">>}
DupMats ==
    {Mat(NULL, t, NULL, NULL, NULL) : t \in DupTitles}
    \cup {Mat(NULL, t, 1, 1, NULL) : t \in DupTitles}
    \cup {Mat(NULL, t, 2, 1, 1) : t \in DupTitles}

\* rows left by an earlier rebuild_duplicates over another catalog
StaleDups ==
    SetToBag({[key_type |-> "title", group_hash |-> MD5(<<"z">>), group_size |-> 2,
               material_id |-> 1]})

InitDup ==
    /\ materials \in [1..MaxDupMat -> DupMats]
    /\ tmp_project_elevations = SampleTpe
    /\ project_views = SamplePv
    /\ pv_col = TRUE
    /\ job_area_materials = SampleJam
    /\ material_options = SampleOptions
    /\ material_brands = SampleBrands
    /\ material_brand_styles = SampleStyles
    /\ material_categories = SampleCategories
    /\ van_exists = TRUE
    /\ van_pv_exists = TRUE
    /\ van_tpe_materials_extracted = EmptyBag
    /\ van_pv_materials_extracted = EmptyBag
    /\ van_jobareas_mat = EmptyFn
    /\ van_elev_mat = EmptyFn
    /\ van_pv_mat = EmptyFn
    /\ van_material_usage_summary = EmptyFn
    /\ van_unused_materials = EmptyFn
    /\ van_duplicate_materials \in {EmptyBag, StaleDups}
    /\ pc = "rd_trunc"
    /\ IdleLocals
    /\ PureUnused
    /\ StatsUnused
    /\ NoFault

NextDup ==
    \/ DupTruncate \/ DupTitle \/ DupTitleBrand \/ DupTitleBrandStyle
    \/ DupTitleBrandStyleCategory

\* rebuild_duplicates called once over any catalog
SpecDup == InitDup /\ [][NextDup]_vars

\* association rows for the job-area aggregation on its own: options 1 and
\* 2 resolve to materials, option 3 to NULL, option 9 has no mapping row
AggJamRows ==
    {Jam(1, NULL), Jam(1, 4), Jam(1, 2), Jam(2, 3), Jam(3, 5), Jam(9, 1)}

\* the aggregate left by an earlier rebuild over other association rows
StaleJobAreas == (7 :> [cnt |-> 3, last_dt |-> 1])

InitAgg ==
    /\ materials = SampleCatalog
    /\ tmp_project_elevations = SampleTpe
    /\ project_views = SamplePv
    /\ pv_col = TRUE
    /\ job_area_materials \in Tables(1..MaxId, AggJamRows)
    /\ material_options = SampleOptions
    /\ material_brands = SampleBrands
    /\ material_brand_styles = SampleStyles
    /\ material_categories = SampleCategories
    /\ van_exists = TRUE
    /\ van_pv_exists = TRUE
    /\ van_tpe_materials_extracted = EmptyBag
    /\ van_pv_materials_extracted = EmptyBag
    /\ van_jobareas_mat \in {EmptyFn, StaleJobAreas}
    /\ van_elev_mat = EmptyFn
    /\ van_pv_mat = EmptyFn
    /\ van_material_usage_summary = EmptyFn
    /\ van_unused_materials = EmptyFn
    /\ van_duplicate_materials = EmptyBag
    /\ pc = "aj_minmax"
    /\ IdleLocals
    /\ PureUnused
    /\ StatsUnused
    /\ NoFault

NextAgg == AggMinMax \/ AggTruncateEmpty \/ AggChunk \/ AggTruncate \/ AggInsert

\* _agg_job_areas called once over any association table, on a fresh
\* aggregate or over the rows of an earlier rebuild
SpecAgg == InitAgg /\ [][NextAgg]_vars

\* sources of the runs that statements may abort: each scan takes two chunks
AbortTpe == (1 :> Row(1, <<"2", ",", "1">>)) @@ (3 :> Row(2, <<"2", ",", "2">>))
AbortPv == (1 :> Row(NULL, <<"1", ",", "7">>)) @@ (3 :> Row(4, <<"[", "2", "]">>))

InitAbort ==
    /\ materials = SampleCatalog
    /\ tmp_project_elevations = AbortTpe
    /\ project_views = AbortPv
    /\ pv_col = TRUE
    /\ job_area_materials = SampleJam
    /\ material_options = SampleOptions
    /\ material_brands = SampleBrands
    /\ material_brand_styles = SampleStyles
    /\ material_categories = SampleCategories
    /\ FreshOutputs
    /\ pc = "idle"
    /\ IdleLocals
    /\ PureUnused
    /\ StatsUnused
    /\ NoFault

NextAbort ==
    \/ RebuildAll \/ RefreshProbe \/ RefreshTruncateTpe \/ RefreshTruncatePv
    \/ RefreshTpeMinMax \/ RefreshTpeChunk \/ RefreshPvMinMax \/ RefreshPvChunk
    \/ SummaryProbe \/ AggMinMax \/ AggChunk \/ AggTruncate \/ AggInsert
    \/ ElevTruncate \/ ElevInsert \/ PvTruncate \/ PvInsert
    \/ SummaryTruncate \/ SummaryInsert \/ UnusedTruncate \/ UnusedInsert
    \/ DupTruncate \/ DupTitle \/ DupTitleBrand \/ DupTitleBrandStyle
    \/ DupTitleBrandStyleCategory
    \/ Return
    \/ RefreshTpeChunkFails \/ RefreshPvChunkFails \/ AggChunkFails
    \/ StatementFails \/ Surface

\* rebuild_all run again and again over unchanged sources, any statement of
\* a run raising
SpecAbort == InitAbort /\ [][NextAbort]_vars

\* the required tables a rebuild reads by name
RequiredTables ==
    {"materials", "tmp_project_elevations", "job_area_materials", "material_options"}

InitConfig ==
    /\ materials = SampleCatalog
    /\ tmp_project_elevations = AbortTpe
    /\ project_views = SamplePv
    /\ pv_col \in BOOLEAN
    /\ job_area_materials = SampleJam
    /\ material_options = SampleOptions
    /\ material_brands = SampleBrands
    /\ material_brand_styles = SampleStyles
    /\ material_categories = SampleCategories
    /\ van_exists \in BOOLEAN
    /\ van_pv_exists = FALSE
    /\ van_tpe_materials_extracted = IF van_exists THEN StaleEdges ELSE EmptyBag
    /\ van_pv_materials_extracted = EmptyBag
    /\ van_jobareas_mat = IF van_exists THEN StaleJobAreas ELSE EmptyFn
    /\ van_elev_mat = EmptyFn
    /\ van_pv_mat = EmptyFn
    /\ van_material_usage_summary = EmptyFn
    /\ van_unused_materials = EmptyFn
    /\ van_duplicate_materials = EmptyBag
    /\ pc = "idle"
    /\ IdleLocals
    /\ PureUnused
    /\ StatsUnused
    /\ missing \in RequiredTables
    /\ aborts = <<>>
    /\ other = NoOther

NextConfig ==
    \/ RebuildAll \/ RefreshProbe \/ RefreshTruncateTpe \/ RefreshTruncatePv
    \/ RefreshTpeMinMax \/ RefreshTpeChunk \/ RefreshPvMinMax \/ RefreshPvChunk
    \/ SummaryProbe \/ AggMinMax \/ AggChunk \/ AggTruncate \/ AggInsert
    \/ ElevTruncate \/ ElevInsert \/ PvTruncate \/ PvInsert
    \/ SummaryTruncate
    \/ ConfigError \/ Surface

\* rebuild_all run while one required table does not resolve
SpecConfig == InitConfig /\ [][NextConfig]_vars

\* summary rows for the reader on its own: an unused material, a used one
StatRows ==
    {[used_job_areas |-> 0, used_elevations |-> 0, used_project_views |-> 0,
      total_uses |-> 0, last_used |-> 2],
     [used_job_areas |-> 1, used_elevations |-> 2, used_project_views |-> 0,
      total_uses |-> 3, last_used |-> NULL]}

\* material_ids: None, or a list over the ids 1..MaxId + 1
StatsArgs ==
    {NoStatsArgs} \cup {[given |-> TRUE, ids |-> S] : S \in SUBSET (1..(MaxId + 1))}

InitStats ==
    /\ materials = SampleCatalog
    /\ tmp_project_elevations = SampleTpe
    /\ project_views = SamplePv
    /\ pv_col = TRUE
    /\ job_area_materials = SampleJam
    /\ material_options = SampleOptions
    /\ material_brands = SampleBrands
    /\ material_brand_styles = SampleStyles
    /\ material_categories = SampleCategories
    /\ van_exists = TRUE
    /\ van_pv_exists = TRUE
    /\ van_tpe_materials_extracted = EmptyBag
    /\ van_pv_materials_extracted = EmptyBag
    /\ van_jobareas_mat = EmptyFn
    /\ van_elev_mat = EmptyFn
    /\ van_pv_mat = EmptyFn
    /\ van_material_usage_summary \in Tables(1..MaxId, StatRows)
    /\ van_unused_materials =
          [m \in {x \in DOMAIN van_material_usage_summary :
                     van_material_usage_summary[x].total_uses = 0} |->
             [last_used |-> van_material_usage_summary[m].last_used]]
    /\ van_duplicate_materials = EmptyBag
    /\ pc = "idle"
    /\ IdleLocals
    /\ PureUnused
    /\ StatsUnused
    /\ NoFault

NextStats == \E args \in StatsArgs : GetMaterialUsageStats(args)

\* get_material_usage_stats called once over any summary table
SpecStats == InitStats /\ [][NextStats]_vars

\* both sessions idle over the sample tables, the engine never run
InitOverlap ==
    /\ materials = SampleCatalog
    /\ tmp_project_elevations = SampleTpe
    /\ project_views = SamplePv
    /\ pv_col = TRUE
    /\ job_area_materials \in {EmptyFn, SampleJam}
    /\ material_options = SampleOptions
    /\ material_brands = SampleBrands
    /\ material_brand_styles = SampleStyles
    /\ material_categories = SampleCategories
    /\ FreshOutputs
    /\ pc = "idle"
    /\ IdleLocals
    /\ PureUnused
    /\ StatsUnused
    /\ NoFault

NextOverlap ==
    \/ RebuildAll \/ RefreshProbe \/ RefreshTruncateTpe \/ RefreshTruncatePv
    \/ RefreshTpeMinMax \/ RefreshTpeChunk \/ RefreshPvMinMax \/ RefreshPvChunk
    \/ SummaryProbe \/ AggMinMax \/ AggTruncateEmpty \/ AggChunk
    \/ AggTruncate \/ AggInsert
    \/ ElevTruncate \/ ElevInsert \/ PvTruncate \/ PvInsert
    \/ SummaryTruncate \/ SummaryInsert \/ UnusedTruncate \/ UnusedInsert
    \/ DupTruncate \/ DupTitle \/ DupTitleBrand \/ DupTitleBrandStyle
    \/ DupTitleBrandStyleCategory
    \/ Switch

\* the button pressed once in each of two sessions, their two rebuild_all
\* runs interleaved statement by statement
SpecOverlap == InitOverlap /\ [][NextOverlap]_vars

InitSchema ==
    /\ materials = SampleCatalog
    /\ tmp_project_elevations = SampleTpe
    /\ project_views = SamplePv
    /\ pv_col \in BOOLEAN
    /\ job_area_materials \in {EmptyFn, SampleJam}
    /\ material_options = SampleOptions
    /\ material_brands = SampleBrands
    /\ material_brand_styles = SampleStyles
    /\ material_categories = SampleCategories
    /\ FreshOutputs
    /\ pc = "idle"
    /\ IdleLocals
    /\ PureUnused
    /\ StatsUnused
    /\ NoFault

NextSchema ==
    \/ Next \/ SchemaChangeDuringRun \/ PvColumnGone \/ Surface

\* rebuild_all run again and again while the optional column comes and goes
\* at any moment
SpecSchema == InitSchema /\ [][NextSchema]_vars

\* ------------------------------------------------------------------------
\* Properties
\* ------------------------------------------------------------------------
RangeIds(r) == r[1]..r[2]
LrFinished == lr_a > lr_args.end_id

\* C5: for any start_id, end_id and step >= 1 the ranges _loop_ranges yields
\* are ascending and contiguous from start_id, each holds at least 1 and at
\* most step ids, none passes end_id, there are finitely many, and once the
\* generator is exhausted they partition start_id..end_id (no range at all
\* when start_id > end_id).
C5_RangesPartition ==
    LET n == Len(lr_out)
        s == lr_args.start_id
        e == lr_args.end_id
    IN /\ n > 0 => lr_out[1][1] = s
       /\ \A i \in 1..n :
             /\ lr_out[i][1] <= lr_out[i][2]
             /\ lr_out[i][2] - lr_out[i][1] + 1 <= lr_args.step
             /\ lr_out[i][2] <= e
       /\ \A i \in 1..(n - 1) : lr_out[i + 1][1] = lr_out[i][2] + 1
       /\ n <= Max(0, e - s + 1)
       /\ LrFinished =>
             /\ UNION {RangeIds(lr_out[i]) : i \in 1..n} = s..e
             /\ \A i, j \in 1..n : i # j => RangeIds(lr_out[i]) \cap RangeIds(lr_out[j]) = {}
             /\ (s > e) = (n = 0)
             /\ n > 0 => lr_out[n][2] = e

\* the generator is exhausted after several full windows and a shorter last one
C5_Witness ==
    /\ LrFinished
    /\ Len(lr_out) >= 3
    /\ lr_args.step >= 2
    /\ lr_args.start_id < 0
    /\ lr_out[Len(lr_out)][2] - lr_out[Len(lr_out)][1] + 1 < lr_args.step

\* the list a single left-to-right scan reads off a raw value: digits build
\* the current number, a comma closes it, any other character is passed
\* over, a number is kept when it is new
RECURSIVE ScanList(_, _, _, _)
ScanList(s, cur, has, out) ==
    LET Close == IF has /\ \A k \in 1..Len(out) : out[k] # cur
                 THEN Append(out, cur) ELSE out
    IN IF s = <<>> THEN Close
       ELSE IF Head(s) = "," THEN ScanList(Tail(s), 0, FALSE, Close)
       ELSE IF Head(s) \in Digits
            THEN ScanList(Tail(s), 10 * cur + DigitVal(Head(s)), TRUE, out)
            ELSE ScanList(Tail(s), cur, has, out)

NoRepeats(q) == \A i, j \in 1..Len(q) : i # j => q[i] # q[j]

\* C6: for every input string _explode_csv returns the integers of the
\* comma-separated tokens that are left once every character other than a
\* digit or a comma is deleted, empty tokens dropped, each integer kept at
\* its first occurrence only; the result never repeats an integer.
C6_ExplodeMatchesScan ==
    (csv_result.done /\ csv_value # NullStr) =>
        /\ csv_result.out = ScanList(csv_value, 0, FALSE, <<>>)
        /\ NoRepeats(csv_result.out)

\* "1,a1": the letter is deleted and the second 1 is a repeat
C6_Witness ==
    /\ csv_result.done
    /\ csv_value = <<"1", ",", "a", "1">>
    /\ csv_result.out = <<1>>

HasDigit(s) == \E i \in 1..Len(s) : s[i] \in Digits

PostSummary ==
    {"rd_trunc", "rd_title", "rd_title_brand", "rd_title_brand_style",
     "rd_title_brand_style_category", "done"}

\* C1: once rebuild_usage_summary has completed, the summary table has a row
\* for exactly the ids of the catalog: unused materials have one, ids known
\* only to edges or aggregates have none.
C1_SummaryRowsAreCatalog ==
    pc \in PostSummary => DOMAIN van_material_usage_summary = DOMAIN materials

\* a catalog material without any use has its row while an aggregate holds an
\* id that is not in the catalog
C1_Witness ==
    /\ pc = "rd_trunc"
    /\ \E m \in DOMAIN materials : van_material_usage_summary[m].total_uses = 0
    /\ \E x \in DOMAIN van_elev_mat \cup DOMAIN van_pv_mat : x \notin DOMAIN materials
    /\ \E x \in 1..2 : x \notin DOMAIN materials

CountIn(agg, m) == IF m \in DOMAIN agg THEN agg[m].cnt ELSE 0

\* C2: once rebuild_usage_summary has completed, every summary row carries
\* the material's count of each per-source aggregate (0 without a row there)
\* and total_uses is the sum of the three.
C2_TotalIsSum ==
    pc \in PostSummary =>
        \A m \in DOMAIN van_material_usage_summary :
            LET r == van_material_usage_summary[m]
            IN /\ r.used_job_areas = CountIn(van_jobareas_mat, m)
               /\ r.used_elevations = CountIn(van_elev_mat, m)
               /\ r.used_project_views = CountIn(van_pv_mat, m)
               /\ r.total_uses = r.used_job_areas + r.used_elevations
                                   + r.used_project_views

\* a material used by all three sources, twice by one of them
C2_Witness ==
    /\ pc = "rd_trunc"
    /\ \E m \in DOMAIN van_material_usage_summary :
          LET r == van_material_usage_summary[m]
          IN /\ r.used_job_areas > 0
             /\ r.used_elevations > 1
             /\ r.used_project_views > 0

\* C3: once a rebuild has completed its summary stage, the unused snapshot
\* holds exactly the materials whose summary row has total_uses = 0.
C3_UnusedIffZero ==
    pc \in PostSummary =>
        DOMAIN van_unused_materials =
            {m \in DOMAIN van_material_usage_summary :
                van_material_usage_summary[m].total_uses = 0}

\* one material in the snapshot, another used by the job areas only
C3_Witness ==
    /\ pc = "done"
    /\ DOMAIN van_unused_materials # {}
    /\ \E m \in DOMAIN van_material_usage_summary :
          /\ m \notin DOMAIN van_unused_materials
          /\ van_material_usage_summary[m].used_elevations = 0
          /\ van_material_usage_summary[m].used_project_views = 0

LastSeen(agg, m) == IF m \in DOMAIN agg THEN COALESCE(agg[m].last_dt, Epoch1970) ELSE Epoch1970

\* C4: in every summary row last_used is the latest of the three per-source
\* last_seen times (the sentinel standing in for an absent one) and the
\* material's own modified time, and it is never NULL, not even for a
\* material without use or without a modified time.
C4_LastUsedDefined ==
    pc \in PostSummary =>
        \A m \in DOMAIN van_material_usage_summary :
            /\ van_material_usage_summary[m].last_used # NULL
            /\ van_material_usage_summary[m].last_used =
                 SetMax({LastSeen(van_jobareas_mat, m), LastSeen(van_elev_mat, m),
                         LastSeen(van_pv_mat, m)}
                        \cup ({materials[m].modified} \ {NULL}))

SeqRange(q) == {q[i] : i \in 1..Len(q)}

\* the edges one run of the elevation scan owes: for every row with a
\* populated list, one per distinct id of the list
ExpectedTpeEdges ==
    UNION {{[elevation_id |-> i, material_id |-> m,
             modified |-> tmp_project_elevations[i].modified] :
               m \in SeqRange(ScanList(tmp_project_elevations[i].existing_material_ids,
                                       0, FALSE, <<>>))} :
           i \in Populated(tmp_project_elevations)}

\* C8: when refresh_extracted_tables has completed, the elevation edge table
\* holds one edge, exactly once, for each source row with a populated list and
\* each distinct material id of that list, and nothing else: an id repeated in
\* a list gives one edge, an id listed by k rows gives k edges, and every row
\* has been scanned by exactly one chunk.
C8_OneEdgePerRowAndId ==
    pc = "rus_probe" =>
        /\ BagToSet(van_tpe_materials_extracted) = ExpectedTpeEdges
        /\ \A e \in ExpectedTpeEdges : CopiesIn(e, van_tpe_materials_extracted) = 1

\* a scan of several chunks over a row repeating id 2 in its list, with id 2
\* listed by another row as well
C8_Witness ==
    /\ pc = "rus_probe"
    /\ SetMax(Populated(tmp_project_elevations) \cup {0})
         - SetMin(Populated(tmp_project_elevations) \cup {MaxId}) >= StepRows
    /\ \E i \in Populated(tmp_project_elevations) :
          tmp_project_elevations[i].existing_material_ids = <<"2", ",", "2">>
    /\ Cardinality({e \in BagToSet(van_tpe_materials_extracted) : e.material_id = 2}) >= 2
    /\ BagCardinality(van_tpe_materials_extracted) >= 3

\* C9: a rebuild_all that follows a completed rebuild_all, nothing having
\* changed in between, ends with the summary rows and the duplicate rows the
\* earlier run ended with.
C9_SecondRunSameTables ==
    (pc = "done" /\ prev.valid) =>
        /\ van_material_usage_summary = prev.summary
        /\ van_duplicate_materials = prev.dups

\* the second run ends over a summary with used materials and a duplicate group
C9_Witness ==
    /\ pc = "done"
    /\ prev.valid
    /\ van_duplicate_materials # EmptyBag
    /\ van_pv_exists
    /\ \E m \in DOMAIN van_material_usage_summary :
          van_material_usage_summary[m].total_uses >= 2

\* the normalised form of a component: lower case, outer spaces removed
RefLower(c) == IF c = "A" THEN "a" ELSE IF c = "B" THEN "b" ELSE c
RefNorm(s) ==
    IF s = NullStr THEN NullStr
    ELSE LET idx == {i \in 1..Len(s) : s[i] # " "}
         IN IF idx = {} THEN <<>>
            ELSE [k \in 1..(SetMax(idx) - SetMin(idx) + 1) |->
                    RefLower(s[SetMin(idx) + k - 1])]

RefOptional(lookup, fk) ==
    IF fk \in DOMAIN lookup /\ lookup[fk] # NullStr THEN RefNorm(lookup[fk]) ELSE <<>>

\* the components of material m under the n-th key type
RefComponents(n, m) ==
    SubSeq(<<RefNorm(materials[m].title),
             RefOptional(material_brands, materials[m].material_brand_id),
             RefOptional(material_brand_styles, materials[m].material_brand_style_id),
             RefOptional(material_categories, materials[m].material_category_id)>>,
           1, n)

RECURSIVE RefJoin(_)
RefJoin(cs) ==
    IF Len(cs) = 0 THEN <<>>
    ELSE IF Len(cs) = 1 THEN cs[1]
    ELSE RefJoin(SubSeq(cs, 1, Len(cs) - 1)) \o <<"|">> \o cs[Len(cs)]

\* the normalised key: the title alone (none for a missing title), or the
\* components that are there joined by the delimiter
RefKey(n, m) ==
    IF n = 1 THEN RefNorm(materials[m].title)
    ELSE RefJoin(SelectSeq(RefComponents(n, m), LAMBDA c : c # NullStr))

RefGroup(n, m) == {x \in DOMAIN materials : RefKey(n, x) = RefKey(n, m)}

\* C10: when rebuild_duplicates has completed, the duplicate table holds, for
\* each of the four key types, exactly one row for each material whose
\* normalised key is shared with another catalog material, with the hash of
\* that key and the size of its group, no row for any other material, and the
\* rows of all four key types together.
C10_DuplicateRows ==
    pc = "done" =>
        /\ \A n \in 1..4 : \A m \in DOMAIN materials :
              LET rows == {r \in BagToSet(van_duplicate_materials) :
                              r.key_type = KeyTypes[n] /\ r.material_id = m}
                  row == [key_type |-> KeyTypes[n], group_hash |-> MD5(RefKey(n, m)),
                          group_size |-> Cardinality(RefGroup(n, m)), material_id |-> m]
              IN IF RefKey(n, m) # NullStr /\ Cardinality(RefGroup(n, m)) >= 2
                 THEN rows = {row} /\ CopiesIn(row, van_duplicate_materials) = 1
                 ELSE rows = {}
        /\ \A r \in BagToSet(van_duplicate_materials) :
              /\ r.key_type \in SeqRange(KeyTypes)
              /\ r.material_id \in DOMAIN materials

\* three materials share a title up to case and spaces, two of them share
\* every component, and rows of the four key types stand side by side
C10_Witness ==
    /\ pc = "done"
    /\ \E r \in BagToSet(van_duplicate_materials) :
          r.key_type = "title" /\ r.group_size = 3
    /\ \E r \in BagToSet(van_duplicate_materials) :
          r.key_type = "title_brand_style_category" /\ r.group_size = 2
    /\ \E r \in BagToSet(van_duplicate_materials) : r.key_type = "title_brand"
    /\ \E r \in BagToSet(van_duplicate_materials) : r.key_type = "title_brand_style"
    /\ \E m \in DOMAIN materials : materials[m].title = <<" ", "A", " ">>

\* the material an association row resolves to through the mapping table,
\* NULL without a mapping row
Resolved(i) ==
    LET opt == job_area_materials[i].material_option_id
    IN IF opt \in DOMAIN material_options THEN material_options[opt] ELSE NULL

RowsOf(m) == {i \in DOMAIN job_area_materials : Resolved(i) = m}

\* C11: when _agg_job_areas has completed, the job-area aggregate has one row
\* for each material some association row resolves to (NULL excluded), its
\* count is the number of those association rows and its last_dt the latest
\* of their non-NULL timestamps (NULL when there is none); over an empty
\* association table the aggregate is empty.
C11_JobAreaAggregate ==
    pc = "rus_elev_trunc" =>
        /\ DOMAIN van_jobareas_mat =
              {Resolved(i) : i \in DOMAIN job_area_materials} \ {NULL}
        /\ \A m \in DOMAIN van_jobareas_mat :
              /\ van_jobareas_mat[m].cnt = Cardinality(RowsOf(m))
              /\ van_jobareas_mat[m].last_dt =
                    SqlMax({job_area_materials[i].updated : i \in RowsOf(m)})
        /\ (DOMAIN job_area_materials = {}) => van_jobareas_mat = EmptyFn

\* a material counted twice from rows of two chunks, the earlier row holding
\* the later timestamp, beside a row that resolves to NULL
C11_Witness ==
    /\ pc = "rus_elev_trunc"
    /\ \E m \in DOMAIN van_jobareas_mat :
          /\ RowsOf(m) = {1, 1 + StepRows}
          /\ job_area_materials[1].updated > job_area_materials[1 + StepRows].updated
          /\ job_area_materials[1 + StepRows].updated # NULL
          /\ van_jobareas_mat[m].cnt = 2
    /\ \E i \in DOMAIN job_area_materials :
          job_area_materials[i].material_option_id \in DOMAIN material_options
          /\ Resolved(i) = NULL

\* C12: after a rebuild during which project_views lacked the id-list column,
\* every summary row has used_project_views = 0 and last_used is computed
\* from the job-area and elevation times and the material's modified time
\* alone, whatever project-view tables earlier rebuilds left.
C12_MissingPvCountsZero ==
    (pc \in PostSummary /\ ~pv_col) =>
        \A m \in DOMAIN van_material_usage_summary :
            /\ van_material_usage_summary[m].used_project_views = 0
            /\ van_material_usage_summary[m].last_used =
                  GREATEST({LastSeen(van_jobareas_mat, m), LastSeen(van_elev_mat, m),
                            materials[m].modified})

\* C13: once rebuild_all has detected the optional column, every later step
\* of that run works with the value detected then: has_pv does not change
\* between the start of a run and its end.
C13_CapabilityCachedPerRun ==
    [][(pc # "idle" /\ pc' \notin {"idle", "raised"}) => has_pv' = has_pv]_vars

\* C14: a chunk whose read or insert raises ends the run there: the step
\* that raises writes nothing and leaves the run in the raised state, and
\* from the raised state control only returns to the caller, no table being
\* written; the run never goes on to the next chunk or the next stage.
C14_FailedChunkStopsRun ==
    [][/\ aborts' # aborts => (pc' = "raised" /\ UNCHANGED outputs)
       /\ pc = "raised" => (pc' = "idle" /\ UNCHANGED outputs)]_vars

\* the second elevation chunk has raised: the edges of the first chunk are
\* in the table, those of the second are not
C14_Witness ==
    /\ pc = "raised"
    /\ aborts = <<[at |-> "rx_tpe_chunk", a |-> 1 + StepRows]>>
    /\ van_tpe_materials_extracted # EmptyBag
    /\ BagToSet(van_tpe_materials_extracted) # ExpectedTpeEdges

\* the edges one run of the project-view scan owes
ExpectedPvEdges ==
    UNION {{[project_view_id |-> i, material_id |-> m,
             modified |-> project_views[i].modified] :
               m \in SeqRange(ScanList(project_views[i].existing_material_ids,
                                       0, FALSE, <<>>))} :
           i \in Populated(project_views)}

\* C15: when a stage completes in a run that follows an aborted run, its
\* tables are those of a clean run: each owed edge once and nothing else in
\* the edge tables, the job-area aggregate of the association rows.
C15_RerunAfterAbortIsClean ==
    aborts # <<>> =>
        /\ pc = "rus_probe" =>
              /\ BagToSet(van_tpe_materials_extracted) = ExpectedTpeEdges
              /\ \A e \in ExpectedTpeEdges : CopiesIn(e, van_tpe_materials_extracted) = 1
              /\ BagToSet(van_pv_materials_extracted) = ExpectedPvEdges
              /\ \A e \in ExpectedPvEdges : CopiesIn(e, van_pv_materials_extracted) = 1
        /\ pc = "rus_elev_trunc" =>
              /\ DOMAIN van_jobareas_mat =
                    {Resolved(i) : i \in DOMAIN job_area_materials} \ {NULL}
              /\ \A m \in DOMAIN van_jobareas_mat :
                    /\ van_jobareas_mat[m].cnt = Cardinality(RowsOf(m))
                    /\ van_jobareas_mat[m].last_dt =
                          SqlMax({job_area_materials[i].updated : i \in RowsOf(m)})

\* the extraction has completed in the run after one that was aborted
\* between its two elevation chunks
C15_Witness ==
    /\ pc = "rus_probe"
    /\ aborts = <<[at |-> "rx_tpe_chunk", a |-> 1 + StepRows]>>
    /\ BagCardinality(van_tpe_materials_extracted) = 3

\* C16: while a required table does not resolve, no step of a rebuild
\* creates, truncates or fills an output table: the rebuild fails first.
C16_ConfigFailsBeforeMutation ==
    [][missing # "none" => UNCHANGED outputs]_vars

\* the stage a position of rebuild_all belongs to: 1 extraction, 2 job-area
\* aggregation, 3 elevation and project-view aggregation, 4 summary merge,
\* 5 unused snapshot, 6 duplicate detection
StageOf(p) ==
    CASE p = "idle" -> 0
      [] p \in {"rx_probe", "rx_trunc_tpe", "rx_trunc_pv", "rx_tpe_minmax",
                "rx_tpe_chunk", "rx_pv_minmax", "rx_pv_chunk"} -> 1
      [] p \in {"rus_probe", "aj_minmax", "aj_trunc_empty", "aj_chunk", "aj_trunc",
                "aj_insert"} -> 2
      [] p \in {"rus_elev_trunc", "rus_elev_insert", "rus_pv_trunc", "rus_pv_insert"} -> 3
      [] p \in {"rus_sum_trunc", "rus_sum_insert"} -> 4
      [] p \in {"rus_unused_trunc", "rus_unused_insert"} -> 5
      [] p \in {"rd_trunc", "rd_title", "rd_title_brand", "rd_title_brand_style",
                "rd_title_brand_style_category"} -> 6
      [] p = "done" -> 7

\* the per-source aggregate a finished GROUP BY over the owed edges gives
ExpectedAgg(edges) ==
    [m \in {e.material_id : e \in edges} |->
        [cnt |-> Cardinality({e \in edges : e.material_id = m}),
         last_dt |-> SqlMax({e.modified : e \in {x \in edges : x.material_id = m}})]]

\* what a stage reads has been finished by the same run
ReadsFinished ==
    /\ StageOf(pc) >= 2 =>
          /\ BagToSet(van_tpe_materials_extracted) = ExpectedTpeEdges
          /\ \A e \in ExpectedTpeEdges : CopiesIn(e, van_tpe_materials_extracted) = 1
          /\ has_pv =>
                /\ BagToSet(van_pv_materials_extracted) = ExpectedPvEdges
                /\ \A e \in ExpectedPvEdges : CopiesIn(e, van_pv_materials_extracted) = 1
    /\ StageOf(pc) >= 3 =>
          /\ DOMAIN van_jobareas_mat =
                {Resolved(i) : i \in DOMAIN job_area_materials} \ {NULL}
          /\ \A m \in DOMAIN van_jobareas_mat :
                van_jobareas_mat[m].cnt = Cardinality(RowsOf(m))
    /\ StageOf(pc) >= 4 =>
          /\ van_elev_mat = ExpectedAgg(ExpectedTpeEdges)
          /\ has_pv => van_pv_mat = ExpectedAgg(ExpectedPvEdges)
    /\ StageOf(pc) >= 5 =>
          van_material_usage_summary = [m \in DOMAIN materials |-> summary_row(m)]
    /\ StageOf(pc) >= 6 =>
          DOMAIN van_unused_materials =
              {m \in DOMAIN materials : van_material_usage_summary[m].total_uses = 0}

\* a step stays within its stage or enters the next one
StageOrderStep == pc' # "idle" => StageOf(pc') \in {StageOf(pc), StageOf(pc) + 1}

C18_StatsForRequestedIds ==
    stats_result.done =>
        /\ DOMAIN stats_result.rows =
              IF stats_args.given
              THEN stats_args.ids \cap DOMAIN van_material_usage_summary
              ELSE DOMAIN van_material_usage_summary
        /\ \A m \in DOMAIN stats_result.rows :
              /\ stats_result.rows[m].total = van_material_usage_summary[m].total_uses
              /\ stats_result.rows[m].last_used = van_material_usage_summary[m].last_used

\* C19: no step of a rebuild, completed or aborted, changes the catalog,
\* the two list-bearing source tables, the association table, the mapping
\* table or a lookup table.
C19_SourcesReadOnly ==
    [][UNCHANGED <<materials, tmp_project_elevations, project_views,
                   job_area_materials, material_options,
                   material_brands, material_brand_styles, material_categories>>]_vars

\* a rebuild has completed after an aborted one and every output table has
\* been written, the sources being what they were
C19_Witness ==
    /\ pc = "done"
    /\ aborts # <<>>
    /\ van_duplicate_materials # EmptyBag
    /\ van_material_usage_summary # EmptyFn
    /\ van_tpe_materials_extracted # EmptyBag
    /\ tmp_project_elevations = AbortTpe
    /\ materials = SampleCatalog

\* positions of refresh_extracted_tables after each of its truncates
AfterTpeTruncate ==
    {"rx_trunc_pv", "rx_tpe_minmax", "rx_tpe_chunk", "rx_pv_minmax", "rx_pv_chunk",
     "rus_probe"}
AfterPvTruncate ==
    {"rx_tpe_minmax", "rx_tpe_chunk", "rx_pv_minmax", "rx_pv_chunk", "rus_probe"}

\* edges of material m in an edge table, copies counted
EdgeCount(edges, m) == BagCount(edges, {e \in BagToSet(edges) : e.material_id = m})

\* C20: from its truncate on, an edge table holds owed edges only, each at
\* most once; while the elevation scan is at window start a it holds exactly
\* the owed edges of the rows below a. A reader therefore counts, for any
\* material, at most the edges the completed run leaves.
C20_EdgesOnlyGrowTowardsFinal ==
    /\ pc \in AfterTpeTruncate =>
          /\ BagToSet(van_tpe_materials_extracted) \subseteq ExpectedTpeEdges
          /\ \A e \in ExpectedTpeEdges : CopiesIn(e, van_tpe_materials_extracted) <= 1
          /\ \A m \in {e.material_id : e \in ExpectedTpeEdges} :
                EdgeCount(van_tpe_materials_extracted, m)
                   <= Cardinality({e \in ExpectedTpeEdges : e.material_id = m})
    /\ pc = "rx_tpe_chunk" =>
          BagToSet(van_tpe_materials_extracted) =
              {e \in ExpectedTpeEdges : e.elevation_id < a}
    /\ (pc \in AfterPvTruncate /\ has_pv) =>
          /\ BagToSet(van_pv_materials_extracted) \subseteq ExpectedPvEdges
          /\ \A e \in ExpectedPvEdges : CopiesIn(e, van_pv_materials_extracted) <= 1
    /\ pc = "rx_pv_chunk" =>
          BagToSet(van_pv_materials_extracted) =
              {e \in ExpectedPvEdges : e.project_view_id < a}

\* between the two chunks of the elevation scan a material has one edge in
\* the table and two once the run has completed
C20_Witness ==
    /\ pc = "rx_tpe_chunk"
    /\ \E m \in {e.material_id : e \in ExpectedTpeEdges} :
          /\ EdgeCount(van_tpe_materials_extracted, m) = 1
          /\ Cardinality({e \in ExpectedTpeEdges : e.material_id = m}) = 2

\* a token of a well-formed list: digits, with or without a leading minus
IsIntToken(t) ==
    LET d == IF t # <<>> /\ Head(t) = "-" THEN Tail(t) ELSE t
    IN d # <<>> /\ \A i \in 1..Len(d) : d[i] \in Digits

TokenValue(t) ==
    IF Head(t) = "-" THEN 0 - DecimalValue(Tail(t)) ELSE DecimalValue(t)

\* the tokens between the commas of s
RECURSIVE TokensOf(_)
TokensOf(s) ==
    LET commas == {i \in 1..Len(s) : s[i] = ","}
    IN IF commas = {} THEN <<s>>
       ELSE LET c == SetMin(commas)
            IN <<SubSeq(s, 1, c - 1)>> \o TokensOf(SubSeq(s, c + 1, Len(s)))

WellFormedList(s) ==
    s # NullStr /\ \A i \in 1..Len(TokensOf(s)) : IsIntToken(TokensOf(s)[i])

\* the values of the tokens, each kept where it comes first
RECURSIVE FirstOccurrences(_, _)
FirstOccurrences(q, out) ==
    IF q = <<>> THEN out
    ELSE IF \E k \in 1..Len(out) : out[k] = Head(q)
         THEN FirstOccurrences(Tail(q), out)
         ELSE FirstOccurrences(Tail(q), Append(out, Head(q)))

TokenValues(s) ==
    FirstOccurrences([i \in 1..Len(TokensOf(s)) |-> TokenValue(TokensOf(s)[i])], <<>>)

\* C21: for a well-formed list, integers separated by commas, negative ones
\* and ones of several digits included, _explode_csv returns the value of
\* each token, sign included, tokens never being merged.
C21_TokensKeepValueAndSign ==
    (csv_result.done /\ WellFormedList(csv_value)) =>
        csv_result.out = TokenValues(csv_value)

\* the job-area aggregate one run owes
ExpectedJobAreas ==
    [m \in {Resolved(i) : i \in DOMAIN job_area_materials} \ {NULL} |->
        [cnt |-> Cardinality(RowsOf(m)),
         last_dt |-> SqlMax({job_area_materials[i].updated : i \in RowsOf(m)})]]

\* the tables as one run alone leaves them
AsSingleRun ==
    /\ BagToSet(van_tpe_materials_extracted) = ExpectedTpeEdges
    /\ \A e \in ExpectedTpeEdges : CopiesIn(e, van_tpe_materials_extracted) = 1
    /\ BagToSet(van_pv_materials_extracted) = ExpectedPvEdges
    /\ \A e \in ExpectedPvEdges : CopiesIn(e, van_pv_materials_extracted) = 1
    /\ van_jobareas_mat = ExpectedJobAreas
    /\ van_elev_mat = ExpectedAgg(ExpectedTpeEdges)
    /\ van_pv_mat = ExpectedAgg(ExpectedPvEdges)
    /\ DOMAIN van_material_usage_summary = DOMAIN materials
    /\ \A m \in DOMAIN van_material_usage_summary :
          LET r == van_material_usage_summary[m]
          IN /\ r.used_job_areas = CountIn(ExpectedJobAreas, m)
             /\ r.used_elevations = CountIn(ExpectedAgg(ExpectedTpeEdges), m)
             /\ r.used_project_views = CountIn(ExpectedAgg(ExpectedPvEdges), m)
             /\ r.total_uses = r.used_job_areas + r.used_elevations
                                 + r.used_project_views

\* C22: when two rebuild_all runs of two sessions overlap on unchanged input,
\* then once both have finished, the edge tables, the per-source aggregates
\* and the usage summary are those of a single run: no edge twice, no count
\* doubled.
C22_OverlapEqualsSingleRun ==
    (pc = "done" /\ other.pc = "done") => AsSingleRun

\* materials x and y have rows of the n-th key type with one group hash
SameDupGroup(n, x, y) ==
    \E r1, r2 \in BagToSet(van_duplicate_materials) :
        /\ r1.key_type = KeyTypes[n] /\ r2.key_type = KeyTypes[n]
        /\ r1.material_id = x /\ r2.material_id = y
        /\ r1.group_hash = r2.group_hash

\* C23: the four key types are nested from coarse to fine: when
\* rebuild_duplicates has completed, two materials that share a group under a
\* finer key type share a group under every coarser key type, the title key
\* type included, whatever the titles and lookup values, missing ones and
\* ones that contain the delimiter included.
C23_KeyTypesNested ==
    pc = "done" =>
        \A n \in 2..4 : \A k \in 1..(n - 1) :
            \A x, y \in DOMAIN materials :
                (x # y /\ SameDupGroup(n, x, y)) => SameDupGroup(k, x, y)

====
